---- MODULE Spec2Model ----
(***************************************************************************)
(* The h5ad reader/writer of anndata (src/anndata/_io/h5ad.py): the        *)
(* chunked sparse <-> dense converters, the in-place overwrite protocol of *)
(* write_sparse_as_dense, and the field orchestration of write_h5ad,       *)
(* read_h5ad and read_h5ad_backed.                                         *)
(*                                                                         *)
(* Two specifications share the definitions below:                         *)
(*   SpecConv  one call of write_sparse_as_dense, one store operation per  *)
(*             step, followed by read_dense_as_sparse of what it wrote;    *)
(*   Spec      whole calls of write_h5ad / read_h5ad / read_h5ad_backed on *)
(*             one target file.                                            *)
(***************************************************************************)
EXTENDS Integers, Sequences, FiniteSets, TLC

VARIABLES file, call, given, out

vars == <<file, call, given, out>>

(***************************************************************************)
(* Bounds of the model and constants of the program.                       *)
(***************************************************************************)
\* A small input matrix has rows + columns <= MaxSide.
MaxSide == 4

\* h5ad.py:124, the window length write_sparse_as_dense passes to
\* idx_chunks_along_axis.
WriteChunkSize == 1000

(***************************************************************************)
(* Matrices.  A dense array is [shape, dtype, a] with a[i][j] the entry of *)
(* row i, column j (1-based).  A compressed sparse matrix is               *)
(* [format, shape, dtype, indptr, indices, data]; indptr and indices hold  *)
(* the 0-based numbers scipy holds.                                        *)
(***************************************************************************)
Max(a, b) == IF a >= b THEN a ELSE b

RECURSIVE SumSeq(_)
SumSeq(s) == IF s = <<>> THEN 0 ELSE Head(s) + SumSeq(Tail(s))

RECURSIVE FlatSeq(_)
FlatSeq(ss) == IF ss = <<>> THEN <<>> ELSE Head(ss) \o FlatSeq(Tail(ss))

\* Order of the stored entries: row-major for CSR, column-major for CSC.
MajorOf(fmt, p) == IF fmt = "csr" THEN p[1] ELSE p[2]

MinorOf(fmt, p) == IF fmt = "csr" THEN p[2] ELSE p[1]

Before(fmt, p, q) ==
    \/ MajorOf(fmt, p) < MajorOf(fmt, q)
    \/ MajorOf(fmt, p) = MajorOf(fmt, q) /\ MinorOf(fmt, p) < MinorOf(fmt, q)

\* The compressed matrix whose stored entries are the cells NZ of the
\* array D, in major order.
CompressedOfCells(fmt, D, NZ) ==
    LET n == Cardinality(NZ)
        At(k) == CHOOSE p \in NZ : Cardinality({q \in NZ : Before(fmt, q, p)}) = k - 1
        nmajor == IF fmt = "csr" THEN D.shape[1] ELSE D.shape[2]
    IN [format |-> fmt, shape |-> D.shape, dtype |-> D.dtype,
        indptr |-> [m \in 1..(nmajor + 1) |->
                        Cardinality({q \in NZ : MajorOf(fmt, q) < m})],
        indices |-> [k \in 1..n |-> MinorOf(fmt, At(k)) - 1],
        data |-> [k \in 1..n |-> D.a[At(k)[1]][At(k)[2]]]]

\* The cells of an array, and those holding a nonzero entry.
Cells(shape) == {<<i, j>> : i \in 1..shape[1], j \in 1..shape[2]}

NonZeroCells(D) == {p \in Cells(D.shape) : D.a[p[1]][p[2]] # 0}

\* scipy.sparse.csr_matrix(dense) / csc_matrix(dense): the nonzero entries
\* in major order, no explicit zeros.  (The singleton set binds the array
\* as a value, computed once.)
CompressedFromDense(fmt, D) ==
    CHOOSE S \in {CompressedOfCells(fmt, d, NonZeroCells(d)) : d \in {D}} : TRUE

csr_matrix(D) == CompressedFromDense("csr", D)

csc_matrix(D) == CompressedFromDense("csc", D)

\* The entry of row i, column j (1-based) of a compressed matrix: the sum
\* of the stored entries at that position.
SparseEntry(S, i, j) ==
    LET major == IF S.format = "csr" THEN i ELSE j
        minor == IF S.format = "csr" THEN j ELSE i
        K == {k \in (S.indptr[major] + 1)..S.indptr[major + 1] :
                 S.indices[k] = minor - 1}
        ks == [x \in 1..Cardinality(K) |->
                  CHOOSE k \in K : Cardinality({l \in K : l < k}) = x - 1]
    IN SumSeq([x \in 1..Cardinality(K) |-> S.data[ks[x]]])

toarray(S) ==
    CHOOSE D \in {[shape |-> s.shape, dtype |-> s.dtype,
                   a |-> [i \in 1..s.shape[1] |-> [j \in 1..s.shape[2] |->
                            SparseEntry(s, i, j)]]] : s \in {S}} : TRUE

(***************************************************************************)
(* Chunk windows.  A window is <<lo, hi>>, the half-open range lo..hi-1 of *)
(* 0-based positions along the chunked axis (axis 0 = rows, 1 = columns);  *)
(* the other axis is taken whole.                                          *)
(***************************************************************************)
RECURSIVE IdxChunksFrom(_, _, _)
IdxChunksFrom(cur, total, chunk_size) ==
    IF cur + chunk_size < total
    THEN <<(<<cur, cur + chunk_size>>)>> \o IdxChunksFrom(cur + chunk_size, total, chunk_size)
    ELSE <<(<<cur, Max(cur, total)>>)>>

\* utils.idx_chunks_along_axis: windows of chunk_size positions while
\* another one fits strictly before the end, then slice(cur, None).
idx_chunks_along_axis(shape, axis, chunk_size) ==
    IdxChunksFrom(0, shape[axis + 1], chunk_size)

WindowShape(shape, axis, w) ==
    IF axis = 0 THEN <<w[2] - w[1], shape[2]>> ELSE <<shape[1], w[2] - w[1]>>

\* value[idx].toarray() for a sparse value: the dense form of the window.
SparseWindowToArray(S, axis, w) ==
    CHOOSE D \in {[shape |-> sh, dtype |-> s.dtype,
                   a |-> [i \in 1..sh[1] |-> [j \in 1..sh[2] |->
                            IF axis = 0 THEN SparseEntry(s, i + w[1], j)
                                        ELSE SparseEntry(s, i, j + w[1])]]] :
                  s \in {S}, sh \in {WindowShape(S.shape, axis, w)}} : TRUE

\* dataset[idx] for a dense dataset: the window as an array.
DenseWindow(D, axis, w) ==
    CHOOSE W \in {[shape |-> sh, dtype |-> d.dtype,
                   a |-> [i \in 1..sh[1] |-> [j \in 1..sh[2] |->
                            IF axis = 0 THEN d.a[i + w[1]][j] ELSE d.a[i][j + w[1]]]]] :
                  d \in {D}, sh \in {WindowShape(D.shape, axis, w)}} : TRUE

\* dset[idx] = block: the window of the dataset overwritten by the block.
DsetAssign(D, axis, w, block) ==
    CHOOSE R \in {[d EXCEPT !.a = [i \in 1..d.shape[1] |-> [j \in 1..d.shape[2] |->
        IF axis = 0
        THEN IF i - 1 >= w[1] /\ i - 1 < w[2] THEN b.a[i - w[1]][j] ELSE d.a[i][j]
        ELSE IF j - 1 >= w[1] /\ j - 1 < w[2] THEN b.a[i][j - w[1]] ELSE d.a[i][j]]]] :
                  d \in {D}, b \in {block}} : TRUE

\* scipy.sparse.vstack(blocks, format="csr") of CSR blocks and
\* hstack(blocks, format="csc") of CSC blocks: the blocks' data and indices
\* concatenated, each block's pointers shifted by the entries before it.
RECURSIVE StackPtr(_, _)
StackPtr(blocks, offset) ==
    IF blocks = <<>> THEN <<>>
    ELSE [k \in 1..(Len(Head(blocks).indptr) - 1) |-> Head(blocks).indptr[k + 1] + offset]
         \o StackPtr(Tail(blocks), offset + Len(Head(blocks).data))

CompressedStackOf(fmt, blocks) ==
    LET nmajor == SumSeq([b \in 1..Len(blocks) |->
                     IF fmt = "csr" THEN blocks[b].shape[1] ELSE blocks[b].shape[2]])
        nminor == IF fmt = "csr" THEN blocks[1].shape[2] ELSE blocks[1].shape[1]
    IN [format |-> fmt,
        shape |-> IF fmt = "csr" THEN <<nmajor, nminor>> ELSE <<nminor, nmajor>>,
        dtype |-> blocks[1].dtype,
        indptr |-> <<0>> \o StackPtr(blocks, 0),
        indices |-> FlatSeq([b \in 1..Len(blocks) |-> blocks[b].indices]),
        data |-> FlatSeq([b \in 1..Len(blocks) |-> blocks[b].data])]

CompressedStack(fmt, blocks) ==
    CHOOSE S \in {CompressedStackOf(fmt, bs) : bs \in {blocks}} : TRUE

vstack(blocks) == CompressedStack("csr", blocks)

hstack(blocks) == CompressedStack("csc", blocks)

\* Mutant: the windows of the column reader read along the rows.
read_dense_as_csc_Mut(dataset, axis_chunk) ==
    LET ws == idx_chunks_along_axis(dataset.shape, 0, axis_chunk)
    IN hstack([k \in 1..Len(ws) |-> csc_matrix(DenseWindow(dataset, 0, ws[k]))])

read_dense_as_csr(dataset, axis_chunk) ==
    LET ws == idx_chunks_along_axis(dataset.shape, 0, axis_chunk)
    IN vstack([k \in 1..Len(ws) |-> csr_matrix(DenseWindow(dataset, 0, ws[k]))])

read_dense_as_csc(dataset, axis_chunk) ==
    LET ws == idx_chunks_along_axis(dataset.shape, 1, axis_chunk)
    IN hstack([k \in 1..Len(ws) |-> csc_matrix(DenseWindow(dataset, 1, ws[k]))])

\* sparse_format is "csr", "csc" or another format class ("coo").
read_dense_as_sparse(dataset, sparse_format, axis_chunk) ==
    IF sparse_format = "csr" THEN [err |-> "none", value |-> read_dense_as_csr(dataset, axis_chunk)]
    ELSE IF sparse_format = "csc" THEN [err |-> "none", value |-> read_dense_as_csc(dataset, axis_chunk)]
    ELSE [err |-> "ValueError", value |-> <<>>]

(***************************************************************************)
(* The store.  A key is the sequence of the characters of an HDF5 path.    *)
(* file.nodes maps every key of the universe to the node linked there:     *)
(*   [kind |-> "none"]                 no link                             *)
(*   [kind |-> "group"]                a plain group                       *)
(*   [kind |-> "dataset", arr |-> D]   a dense 2D dataset                  *)
(*   [kind |-> "sparse", m |-> S]      a group holding a compressed matrix *)
(*   [kind |-> "elem", v |-> t]        any other encoded element           *)
(*   [kind |-> "legacy", v |-> t]      a pre-0.7 table stored as a dataset *)
(***************************************************************************)
KX == <<"X">>

KTmpX == <<"_", "X">>

KRaw == <<"r", "a", "w">>

KRawX == KRaw \o <<"/", "X">>

KRawTmpX == KRaw \o <<"/", "_", "X">>

KRawVar == KRaw \o <<"/", "v", "a", "r">>

KRawVarm == KRaw \o <<"/", "v", "a", "r", "m">>

KLegacyRawX == KRaw \o <<".", "X">>

KLegacyRawVar == KRaw \o <<".", "v", "a", "r">>

KLegacyRawVarm == KRaw \o <<".", "v", "a", "r", "m">>

KObs == <<"o", "b", "s">>

KVar == <<"v", "a", "r">>

KObsm == <<"o", "b", "s", "m">>

KVarm == <<"v", "a", "r", "m">>

KObsp == <<"o", "b", "s", "p">>

KVarp == <<"v", "a", "r", "p">>

KLayers == <<"l", "a", "y", "e", "r", "s">>

KUns == <<"u", "n", "s">>

KOther == <<"o", "t", "h", "e", "r">>

Keys ==
    {KX, KTmpX, KRaw, KRawX, KRawTmpX, KRawVar, KRawVarm,
     KLegacyRawX, KLegacyRawVar, KLegacyRawVarm,
     KObs, KVar, KObsm, KVarm, KObsp, KVarp, KLayers, KUns, KOther}

NoNode == [kind |-> "none"]

GroupNode == [kind |-> "group"]

EmptyNodes == [k \in Keys |-> NoNode]

\* `key in f`
Contains(nodes, key) == key \in DOMAIN nodes /\ nodes[key].kind # "none"

LastSlash(key) ==
    LET S == {i \in 1..Len(key) : key[i] = "/"}
    IN IF S = {} THEN 0 ELSE CHOOSE i \in S : \A j \in S : j <= i

IsUnder(key, group) ==
    /\ Len(key) > Len(group) + 1
    /\ SubSeq(key, 1, Len(group)) = group
    /\ key[Len(group) + 1] = "/"

\* del f[key]: the link and everything below it.
DelKey(nodes, key) ==
    [k \in DOMAIN nodes |-> IF k = key \/ IsUnder(k, key) THEN NoNode ELSE nodes[k]]

\* Links a node at key, creating the missing intermediate groups.
PutNode(nodes, key, node) ==
    [k \in DOMAIN nodes |->
        IF k = key THEN node
        ELSE IF IsUnder(key, k) /\ nodes[k].kind = "none" THEN GroupNode
        ELSE nodes[k]]

\* f.create_dataset(key, shape=, dtype=): a dataset of the fill value 0.
ZeroDataset(shape, dtype) ==
    [kind |-> "dataset",
     arr |-> [shape |-> shape, dtype |-> dtype,
              a |-> [i \in 1..shape[1] |-> [j \in 1..shape[2] |-> 0]]]]

WordChars ==
    {"X", "_", "a", "b", "e", "h", "l", "m", "o", "p", "r", "s", "t", "u", "v", "w", "y", "n"}

RECURSIVE Rstrip(_)
Rstrip(key) ==
    IF key # <<>> /\ key[Len(key)] = "/" THEN Rstrip(SubSeq(key, 1, Len(key) - 1)) ELSE key

\* re.sub(r"(.*)(\w(?!.*/))", r"\1_\2", key.rstrip("/")): the greedy (.*)
\* leaves for \2 the last word character that no "/" follows, and "_" is
\* put before it.
TempKey(key) ==
    LET s == Rstrip(key)
        P == {i \in 1..Len(s) : s[i] \in WordChars /\ \A j \in (i + 1)..Len(s) : s[j] # "/"}
        p == CHOOSE i \in P : \A j \in P : j <= i
    IN IF P = {} THEN s
       ELSE SubSeq(s, 1, p - 1) \o <<"_">> \o SubSeq(s, p, Len(s))

(***************************************************************************)
(* Values handed to the writers.  An in-memory matrix is                   *)
(*   [kind |-> "mem", file |-> "none", repr, m]                            *)
(* and a matrix that lives in a store (h5py.Dataset or SparseDataset) is   *)
(*   [kind |-> "backed", file, key, repr, m]                               *)
(* with repr "sparse" (m a compressed matrix) or "dense" (m an array).     *)
(* file is "target" for the file being written and "other" for any other   *)
(* file.  m is what reading through the handle returns: an HDF5 object     *)
(* stays readable through an open handle after its link is deleted.        *)
(***************************************************************************)
MemValue(repr, m) == [kind |-> "mem", file |-> "none", key |-> <<>>, repr |-> repr, m |-> m]

BackedValue(fname, key, repr, m) ==
    [kind |-> "backed", file |-> fname, key |-> key, repr |-> repr, m |-> m]

\* isinstance(value, (sparse.spmatrix, SparseDataset))
IsSparseValue(value) == value.repr = "sparse"

ValueShape(value) == value.m.shape

ValueDtype(value) == value.m.dtype

(***************************************************************************)
(* write_sparse_as_dense, one store operation per step.  A run is          *)
(* [nodes, fr]: the nodes of f and the frame of the call,                  *)
(*   fr = [pc, key, real_key, value, axis, todo, failed_at]                *)
(* real_key = <<>> stands for None.                                        *)
(***************************************************************************)
NoFrame ==
    [pc |-> "idle", key |-> <<>>, real_key |-> <<>>, value |-> <<>>,
     axis |-> 0, todo |-> <<>>, failed_at |-> "none"]

WsdEnter(key, value) ==
    [pc |-> "start", key |-> key, real_key |-> <<>>, value |-> value,
     axis |-> 0, todo |-> <<>>, failed_at |-> "none"]

value_in_target(fr) == fr.value.kind = "backed" /\ fr.value.file = "target"

\* Mutant: the file names compared with the wrong sense.
SameFileAsTarget_Mut(value) == value.kind = "backed" /\ value.file # "target"

\* h5ad.py:113-115; f.file.filename is the target file.
SameFileAsTarget(value) == value.kind = "backed" /\ value.file = "target"

\* h5ad.py:123
CompressedAxis(value) == IF value.kind = "mem" /\ value.m.format = "csc" THEN 1 ELSE 0

\* Mutant: the destination is wiped before the write on the aliased branch too.
WsdStart_Mut(nodes, fr) ==
    IF Contains(nodes, fr.key)
    THEN IF value_in_target(fr)
         THEN [nodes |-> DelKey(nodes, fr.key),
               fr |-> [fr EXCEPT !.pc = "create", !.real_key = fr.key, !.key = TempKey(fr.key)]]
         ELSE [nodes |-> DelKey(nodes, fr.key), fr |-> [fr EXCEPT !.pc = "create"]]
    ELSE [nodes |-> nodes, fr |-> [fr EXCEPT !.pc = "create"]]

\* h5ad.py:111-121
WsdStart(nodes, fr) ==
    IF Contains(nodes, fr.key)
    THEN IF SameFileAsTarget(fr.value)
         THEN [nodes |-> nodes,
               fr |-> [fr EXCEPT !.pc = "create", !.real_key = fr.key, !.key = TempKey(fr.key)]]
         ELSE [nodes |-> DelKey(nodes, fr.key), fr |-> [fr EXCEPT !.pc = "create"]]
    ELSE [nodes |-> nodes, fr |-> [fr EXCEPT !.pc = "create"]]

\* h5ad.py:122-124; create_dataset raises when the name is taken.
WsdCreate(nodes, fr) ==
    IF Contains(nodes, fr.key)
    THEN [nodes |-> nodes, fr |-> [fr EXCEPT !.pc = "failed", !.failed_at = "create"]]
    ELSE [nodes |-> PutNode(nodes, fr.key,
                            ZeroDataset(ValueShape(fr.value), ValueDtype(fr.value))),
          fr |-> [fr EXCEPT !.pc = "chunks",
                            !.axis = CompressedAxis(fr.value),
                            !.todo = idx_chunks_along_axis(ValueShape(fr.value),
                                         CompressedAxis(fr.value), WriteChunkSize)]]

\* h5ad.py:125-126, one pass of the loop
WsdChunk(nodes, fr) ==
    LET w == Head(fr.todo)
        block == SparseWindowToArray(fr.value.m, fr.axis, w)
        last == Tail(fr.todo) = <<>>
    IN [nodes |-> [nodes EXCEPT ![fr.key].arr = DsetAssign(@, fr.axis, w, block)],
        fr |-> [fr EXCEPT !.todo = Tail(fr.todo),
                          !.pc = IF ~last THEN "chunks"
                                 ELSE IF fr.real_key # <<>> THEN "del_real" ELSE "done"]]

\* h5ad.py:127
WsdDelReal(nodes, fr) ==
    [nodes |-> DelKey(nodes, fr.real_key), fr |-> [fr EXCEPT !.pc = "link"]]

\* h5ad.py:128
WsdLink(nodes, fr) ==
    [nodes |-> PutNode(nodes, fr.real_key, nodes[fr.key]), fr |-> [fr EXCEPT !.pc = "del_tmp"]]

\* Mutant: the temporary key is left behind.
WsdDelTmp_Mut(nodes, fr) == [nodes |-> nodes, fr |-> [fr EXCEPT !.pc = "done"]]

\* h5ad.py:129
WsdDelTmp(nodes, fr) ==
    [nodes |-> DelKey(nodes, fr.key), fr |-> [fr EXCEPT !.pc = "done"]]

WsdStep(nodes, fr) ==
    CASE fr.pc = "start" -> WsdStart(nodes, fr)
      [] fr.pc = "create" -> WsdCreate(nodes, fr)
      [] fr.pc = "chunks" -> WsdChunk(nodes, fr)
      [] fr.pc = "del_real" -> WsdDelReal(nodes, fr)
      [] fr.pc = "link" -> WsdLink(nodes, fr)
      [] fr.pc = "del_tmp" -> WsdDelTmp(nodes, fr)

\* The whole call, no store operation failing.
RECURSIVE WsdRun(_, _)
WsdRun(nodes, fr) ==
    IF fr.pc \in {"done", "failed"} THEN [nodes |-> nodes, fr |-> fr]
    ELSE CHOOSE r \in {WsdRun(st.nodes, st.fr) : st \in {WsdStep(nodes, fr)}} : TRUE

write_sparse_as_dense(nodes, key, value) == WsdRun(nodes, WsdEnter(key, value))

(***************************************************************************)
(* Files.  file = [exists, attrs, nodes] is the target file: whether it    *)
(* exists, the attributes of its root group ("" = attribute absent) and    *)
(* its nodes.                                                              *)
(***************************************************************************)
NoAttrs == [etype |-> "", eversion |-> ""]

NoFile == [exists |-> FALSE, attrs |-> NoAttrs, nodes |-> EmptyNodes]

NoOut == [op |-> "none"]

(***************************************************************************)
(* SpecConv: one call write_sparse_as_dense(f, key, value) on an open      *)
(* file, then read_dense_as_sparse of the dataset it left at key.          *)
(***************************************************************************)
\* The inputs: every matrix with rows + columns <= MaxSide whose entry at
\* (i, j) is 0 or a value that no other position holds, and matrices one
\* longer than a write window along one axis whose first and last entries
\* are 0 or set.
SmallShapes == UNION {{<<r, c>> : c \in 0..(MaxSide - r)} : r \in 0..MaxSide}

BigShapes == {<<WriteChunkSize + 1, 1>>, <<1, WriteChunkSize + 1>>}

CellCode(shape, p) == (p[1] - 1) * shape[2] + p[2]

DenseOf(shape, dtype, nz) ==
    [shape |-> shape, dtype |-> dtype,
     a |-> [i \in 1..shape[1] |-> [j \in 1..shape[2] |->
              IF <<i, j>> \in nz THEN CellCode(shape, <<i, j>>) ELSE 0]]]

DenseInputs ==
    {DenseOf(sh, IF Cardinality(nz) % 2 = 0 THEN "float32" ELSE "int64", nz) :
        <<sh, nz>> \in UNION {{sh} \X SUBSET Cells(sh) : sh \in SmallShapes}}
    \cup {DenseOf(sh, "float32", nz) :
        <<sh, nz>> \in UNION {{sh} \X SUBSET {<<1, 1>>, sh} : sh \in BigShapes}}

IsSmall(shape) == shape[1] + shape[2] <= MaxSide

\* What the destination holds before the call when it exists and is not
\* the source itself.
OldMatrix == [shape |-> <<1, 1>>, dtype |-> "int64", a |-> <<(<<7>>)>>]

OldNode == [kind |-> "sparse", m |-> csr_matrix(OldMatrix)]

OtherKey(key) == IF key = KX THEN KRawX ELSE KX

Scenarios ==
    {"absent_mem", "absent_other", "exists_mem", "exists_other", "same_key", "same_file",
     "stale_tmp"}

ConvValue(sc, key, S) ==
    CASE sc \in {"absent_mem", "exists_mem"} -> MemValue("sparse", S)
      [] sc \in {"absent_other", "exists_other"} -> BackedValue("other", key, "sparse", S)
      [] sc \in {"same_key", "stale_tmp"} -> BackedValue("target", key, "sparse", S)
      [] sc = "same_file" -> BackedValue("target", OtherKey(key), "sparse", S)

ConvNodes(sc, key, S) ==
    CASE sc \in {"absent_mem", "absent_other"} -> PutNode(EmptyNodes, KObs, [kind |-> "elem", v |-> "old"])
      [] sc \in {"exists_mem", "exists_other"} -> PutNode(EmptyNodes, key, OldNode)
      [] sc = "same_key" -> PutNode(EmptyNodes, key, [kind |-> "sparse", m |-> S])
      [] sc = "stale_tmp" ->
           PutNode(PutNode(EmptyNodes, key, [kind |-> "sparse", m |-> S]), TempKey(key), OldNode)
      [] sc = "same_file" ->
           PutNode(PutNode(EmptyNodes, key, OldNode), OtherKey(key), [kind |-> "sparse", m |-> S])

InitConv ==
    \E M \in DenseInputs, fmt \in {"csr", "csc"}, key \in {KX, KRawX}, sc \in Scenarios :
        LET S == CompressedFromDense(fmt, M)
            nodes == ConvNodes(sc, key, S)
            value == ConvValue(sc, key, S)
        IN /\ file = [exists |-> TRUE, attrs |-> NoAttrs, nodes |-> nodes]
           /\ call = WsdEnter(key, value)
           /\ given = [op |-> "write_sparse_as_dense", key |-> key, value |-> value,
                       scenario |-> sc, before |-> nodes]
           /\ out = NoOut

ConvStepAt(pc) ==
    /\ call.pc = pc
    /\ \E st \in {WsdStep(file.nodes, call)} :
          /\ file' = [file EXCEPT !.nodes = st.nodes]
          /\ call' = st.fr
    /\ UNCHANGED <<given, out>>

ConvStart == ConvStepAt("start")

ConvCreate == ConvStepAt("create")

ConvChunk == ConvStepAt("chunks")

ConvDelReal == ConvStepAt("del_real")

ConvLink == ConvStepAt("link")

ConvDelTmp == ConvStepAt("del_tmp")

\* A store operation raises (an I/O error): the call ends where it is.
ConvFail ==
    /\ call.pc \in {"create", "chunks", "del_real", "link", "del_tmp"}
    /\ call' = [call EXCEPT !.pc = "failed", !.failed_at = call.pc]
    /\ UNCHANGED <<file, given, out>>

ReadChunks(shape) ==
    IF IsSmall(shape) THEN 1..Max(shape[1], shape[2])
    ELSE {WriteChunkSize, WriteChunkSize + 1}

ConvReadBack ==
    /\ call.pc = "done"
    /\ out = NoOut
    /\ file.nodes[given.key].kind = "dataset"
    /\ \E fmt \in {"csr", "csc", "coo"}, chunk \in ReadChunks(file.nodes[given.key].arr.shape) :
          out' = [op |-> "read_dense_as_sparse", sparse_format |-> fmt, axis_chunk |-> chunk,
                  res |-> read_dense_as_sparse(file.nodes[given.key].arr, fmt, chunk)]
    /\ UNCHANGED <<file, call, given>>

NextConv ==
    \/ ConvStart
    \/ ConvCreate
    \/ ConvChunk
    \/ ConvDelReal
    \/ ConvLink
    \/ ConvDelTmp
    \/ ConvFail
    \/ ConvReadBack

SpecConv == InitConv /\ [][NextConv]_vars

(***************************************************************************)
(* Containers (AnnData objects) as write_h5ad sees them:                   *)
(*   [isbacked, filename, is_view, has_X, X, raw]                          *)
(* filename is "target" when the container is backed on the file being     *)
(* written, "other" when backed on another file, "none" in memory.  has_X  *)
(* is what adata._has_X() returns.  raw is NoRaw (None) or [X |-> value].  *)
(* The tables and annotation maps of a container are the opaque value      *)
(* "mem".                                                                  *)
(***************************************************************************)
NoValue == [kind |-> "none", file |-> "none", key |-> <<>>, repr |-> "none", m |-> <<>>]

NoRaw == [present |-> FALSE, X |-> NoValue]

RawOf(value) == [present |-> TRUE, X |-> value]

ElemNode(v) == [kind |-> "elem", v |-> v]

\* write_elem of a matrix: a dense value becomes a dataset, a sparse one a
\* group of its compressed arrays.
MatrixNode(value) ==
    IF value.repr = "sparse" THEN [kind |-> "sparse", m |-> value.m]
    ELSE [kind |-> "dataset", arr |-> value.m]

\* specs.write_elem(f, key, elem): whatever is linked at key is replaced by
\* the encoding of elem.
write_elem(nodes, key, node) == PutNode(DelKey(nodes, key), key, node)

\* write_elem(f, "raw", adata.raw): the raw group with its X, var and varm.
write_elem_raw(nodes, raw) ==
    PutNode(PutNode(PutNode(PutNode(DelKey(nodes, KRaw), KRaw, GroupNode),
                            KRawX, MatrixNode(raw.X)),
                    KRawVar, ElemNode("mem")),
            KRawVarm, ElemNode("mem"))

\* Mutant: the attribute is assigned whether or not it is there.
setdefault_Mut(current, default) == default

\* f.attrs.setdefault(name, default)
setdefault(current, default) == IF current = "" THEN default ELSE current

IndexOf(seq, x) == CHOOSE i \in 1..Len(seq) : seq[i] = x /\ \A j \in 1..(i - 1) : seq[j] # x

InSeq(x, seq) == \E i \in 1..Len(seq) : seq[i] = x

\* h5ad.py:50-54
ForceDense(force_dense, as_dense, adata) ==
    IF force_dense = "True"
    THEN IF adata.raw.present THEN <<"X", "raw/X">> ELSE <<"X">>
    ELSE as_dense

\* h5ad.py:57-59: the first "raw.X" becomes "raw/X".
NormalizeAsDense(as_dense) ==
    IF InSeq("raw.X", as_dense)
    THEN [as_dense EXCEPT ![IndexOf(as_dense, "raw.X")] = "raw/X"]
    ELSE as_dense

\* Mutant: the check that a raw snapshot exists is missing.
AsDenseError_Mut(as_dense, adata) ==
    IF \E i \in 1..Len(as_dense) : as_dense[i] \notin {"X", "raw/X"}
    THEN "NotImplementedError"
    ELSE "none"

\* h5ad.py:60-65, on the normalized as_dense
AsDenseError(as_dense, adata) ==
    IF \E i \in 1..Len(as_dense) : as_dense[i] \notin {"X", "raw/X"}
    THEN "NotImplementedError"
    ELSE IF InSeq("raw/X", as_dense) /\ ~adata.raw.present
    THEN "ValueError"
    ELSE "none"

\* Mutant: a view of a container backed on the target file is skipped too.
WritesXWithCodec_Mut(adata) == ~(adata.isbacked /\ adata.filename = "target")

\* h5ad.py:84
WritesXWithCodec(adata) ==
    ~(adata.isbacked /\ adata.filename = "target") \/ adata.is_view

\* h5ad.py:81-86.  st = [nodes, err, writes]: the nodes of f, the error
\* raised so far and the keys a write has been issued for.
WriteX(st, adata, as_dense) ==
    IF ~adata.isbacked \/ adata.has_X
    THEN IF InSeq("X", as_dense) /\ IsSparseValue(adata.X)
         THEN LET r == write_sparse_as_dense(st.nodes, KX, adata.X)
              IN [nodes |-> r.nodes,
                  err |-> IF r.fr.pc = "failed" THEN "ValueError" ELSE "none",
                  writes |-> st.writes \cup {KX}]
         ELSE IF WritesXWithCodec(adata)
         THEN [st EXCEPT !.nodes = write_elem(st.nodes, KX, MatrixNode(adata.X)),
                         !.writes = st.writes \cup {KX}]
         ELSE st
    ELSE st

\* h5ad.py:87-98.  adata.raw.X of a container without raw raises.
WriteRaw(st, adata, as_dense) ==
    IF st.err # "none" THEN st
    ELSE IF InSeq("raw/X", as_dense) /\ ~adata.raw.present
    THEN [st EXCEPT !.err = "AttributeError"]
    ELSE IF InSeq("raw/X", as_dense) /\ IsSparseValue(adata.raw.X)
    THEN LET r == write_sparse_as_dense(st.nodes, KRawX, adata.raw.X)
         IN IF r.fr.pc = "failed"
            THEN [nodes |-> r.nodes, err |-> "ValueError", writes |-> st.writes \cup {KRawX}]
            ELSE [nodes |-> write_elem(write_elem(r.nodes, KRawVar, ElemNode("mem")),
                                       KRawVarm, ElemNode("mem")),
                  err |-> "none",
                  writes |-> st.writes \cup {KRawX, KRawVar, KRawVarm}]
    ELSE IF adata.raw.present
    THEN [st EXCEPT !.nodes = write_elem_raw(st.nodes, adata.raw),
                    !.writes = st.writes \cup {KRaw}]
    ELSE st

RestFields == <<KObs, KVar, KObsm, KVarm, KObsp, KVarp, KLayers, KUns>>

RECURSIVE WriteFields(_, _)
WriteFields(nodes, fields) ==
    IF fields = <<>> THEN nodes
    ELSE WriteFields(write_elem(nodes, Head(fields), ElemNode("mem")), Tail(fields))

\* The same fields as an earlier write left them.
WriteFieldsOld(nodes) ==
    [k \in DOMAIN nodes |->
        IF \E i \in 1..Len(RestFields) : RestFields[i] = k THEN ElemNode("old") ELSE nodes[k]]

\* A raw group as an earlier write left it.
write_elem_raw_old(nodes) ==
    PutNode(PutNode(PutNode(PutNode(nodes, KRaw, GroupNode), KRawX, OldNode),
                    KRawVar, ElemNode("old")),
            KRawVarm, ElemNode("old"))

\* h5ad.py:99-106
WriteRest(st) ==
    IF st.err # "none" THEN st
    ELSE [st EXCEPT !.nodes = WriteFields(st.nodes, RestFields),
                    !.writes = st.writes \cup {RestFields[i] : i \in 1..Len(RestFields)}]

\* h5ad.py:72-75: h5py.File(filepath, "a" if adata.isbacked else "w").
\* "w" creates or truncates; "a" opens what is there or creates.
OpenForWrite(f, adata) ==
    IF adata.isbacked /\ f.exists THEN f
    ELSE [exists |-> TRUE, attrs |-> NoAttrs, nodes |-> EmptyNodes]

\* h5ad.py:78-79
SetRootAttrs(attrs) ==
    [etype |-> setdefault(attrs.etype, "anndata"),
     eversion |-> setdefault(attrs.eversion, "0.1.0")]

\* write_h5ad(filepath, adata, force_dense=, as_dense=) on the target file f.
\* The result is [err, opened, file, writes]: the exception raised, whether
\* h5py.File was called, the file as the call leaves it and the keys a
\* write was issued for.
write_h5ad(f, adata, force_dense, as_dense) ==
    LET ad == NormalizeAsDense(ForceDense(force_dense, as_dense, adata))
        verr == AsDenseError(ad, adata)
        opened == OpenForWrite(f, adata)
        st0 == [nodes |-> opened.nodes, err |-> "none", writes |-> {}]
        st == WriteRest(WriteRaw(WriteX(st0, adata, ad), adata, ad))
    IN IF verr # "none"
       THEN [err |-> verr, opened |-> FALSE, file |-> f, writes |-> {}]
       ELSE [err |-> st.err, opened |-> TRUE,
             file |-> [exists |-> TRUE, attrs |-> SetRootAttrs(opened.attrs), nodes |-> st.nodes],
             writes |-> st.writes]

(***************************************************************************)
(* Reading.  A decoded value records how a node was decoded:               *)
(*   [how |-> "read_elem", node]   [how |-> "read_dataframe_legacy", node] *)
(*   [how |-> "sparse", value]     [how |-> "missing"]                     *)
(* The field mapping d handed to the container constructor maps the names  *)
(* below (the top-level keys of the store, "raw", "dtype", "filename" and  *)
(* "filemode") to decoded values.                                          *)
(***************************************************************************)
\* h5ad.py:171, the default chunk_size of read_h5ad
DefaultChunkSize == 6000

Missing == [how |-> "missing"]

FRaw == KRaw

FDtype == <<"d", "t", "y", "p", "e">>

FFilename == <<"f", "i", "l", "e", "n", "a", "m", "e">>

FFilemode == <<"f", "i", "l", "e", "m", "o", "d", "e">>

\* f.keys(): the links of the root group.
TopKeys(nodes) == {k \in Keys : LastSlash(k) = 0 /\ Contains(nodes, k)}

\* k.startswith("raw.")
IsLegacyRawKey(k) == Len(k) > 4 /\ SubSeq(k, 1, 4) = KRaw \o <<".">>

DFields == {k \in Keys : LastSlash(k) = 0} \cup {FDtype, FFilename, FFilemode}

EmptyMapping == [k \in DFields |-> Missing]

\* specs.read_elem(node)
read_elem(node) == [how |-> "read_elem", node |-> node]

\* h5ad.py:276-293
read_dataframe_legacy(node) == [how |-> "read_dataframe_legacy", node |-> node]

\* h5ad.py:296-301; a table stored as a single dataset is not a group.
read_dataframe(node) ==
    IF node.kind = "legacy" THEN read_dataframe_legacy(node) ELSE read_elem(node)

\* rdasp = partial(read_dense_as_sparse, sparse_format=, axis_chunk=), on a
\* node; a node that is not a dataset has no shape to chunk.
rdasp(node, fmt, chunk) ==
    IF node.kind # "dataset" THEN [err |-> "AttributeError", val |-> Missing]
    ELSE [err |-> read_dense_as_sparse(node.arr, fmt, chunk).err,
          val |-> [how |-> "sparse", value |-> read_dense_as_sparse(node.arr, fmt, chunk).value]]

NoRawMapping == [X |-> Missing, var |-> Missing, varm |-> Missing]

\* utils._read_legacy_raw(f, modern_raw, read_dataframe, read_elem, attrs=):
\* the new-style raw as it is when it has anything (an error when legacy
\* raw.* keys stand beside it), else what the legacy raw.X, raw.var and
\* raw.varm keys hold.
read_legacy_raw(nodes, modern_raw, attrs) ==
    IF modern_raw # NoRawMapping
    THEN IF \E k \in TopKeys(nodes) : IsLegacyRawKey(k)
         THEN [err |-> "ValueError", raw |-> NoRawMapping]
         ELSE [err |-> "none", raw |-> modern_raw]
    ELSE [err |-> "none",
          raw |-> [X |-> IF "X" \in attrs /\ Contains(nodes, KLegacyRawX)
                         THEN read_elem(nodes[KLegacyRawX]) ELSE Missing,
                   var |-> IF "var" \in attrs /\ Contains(nodes, KLegacyRawVar)
                           THEN read_dataframe(nodes[KLegacyRawVar]) ELSE Missing,
                   varm |-> IF "varm" \in attrs /\ Contains(nodes, KLegacyRawVarm)
                            THEN read_elem(nodes[KLegacyRawVarm]) ELSE Missing]]

\* Mutant: the raw matrix is read whatever attrs says.
read_raw_Mut(nodes, as_sparse, fmt, chunk, attrs) ==
    LET x == IF Contains(nodes, KRawX) THEN read_elem(nodes[KRawX]) ELSE Missing
        var == IF "var" \in attrs /\ Contains(nodes, KRawVar)
               THEN read_elem(nodes[KRawVar]) ELSE Missing
        varm == IF "varm" \in attrs /\ Contains(nodes, KRawVarm)
                THEN read_elem(nodes[KRawVarm]) ELSE Missing
    IN read_legacy_raw(nodes, [X |-> x, var |-> var, varm |-> varm], attrs)

\* h5ad.py:257-273
read_raw(nodes, as_sparse, fmt, chunk, attrs) ==
    LET readsX == "X" \in attrs /\ Contains(nodes, KRawX)
        x == IF ~readsX THEN [err |-> "none", val |-> Missing]
             ELSE IF InSeq("raw/X", as_sparse) THEN rdasp(nodes[KRawX], fmt, chunk)
             ELSE [err |-> "none", val |-> read_elem(nodes[KRawX])]
        var == IF "var" \in attrs /\ Contains(nodes, KRawVar)
               THEN read_elem(nodes[KRawVar]) ELSE Missing
        varm == IF "varm" \in attrs /\ Contains(nodes, KRawVarm)
                THEN read_elem(nodes[KRawVarm]) ELSE Missing
    IN IF x.err # "none" THEN [err |-> x.err, raw |-> NoRawMapping]
       ELSE read_legacy_raw(nodes, [X |-> x.val, var |-> var, varm |-> varm], attrs)

\* h5ad.py:150-158 and 242-250: the element dtype of X, probed.
ProbeDtype(nodes) ==
    IF ~Contains(nodes, KX) THEN Missing
    ELSE IF nodes[KX].kind = "sparse" THEN [how |-> "dtype", dtype |-> nodes[KX].m.dtype]
    ELSE IF nodes[KX].kind = "dataset" THEN [how |-> "dtype", dtype |-> nodes[KX].arr.dtype]
    ELSE [how |-> "ValueError"]

BackedAttributes == {KObsm, KVarm, KObsp, KVarp, KUns, KLayers}

\* h5ad.py:132-162.  The result is [err, opened, d].
read_h5ad_backed(f, mode) ==
    IF ~f.exists THEN [err |-> "OSError", opened |-> TRUE, d |-> EmptyMapping]
    ELSE LET raw == read_raw(f.nodes, <<>>, "csr", DefaultChunkSize, {"var", "varm"})
             dt == ProbeDtype(f.nodes)
             d == [k \in DFields |->
                     IF k = FFilename THEN [how |-> "given", v |-> "target"]
                     ELSE IF k = FFilemode THEN [how |-> "given", v |-> mode]
                     ELSE IF k \in BackedAttributes /\ Contains(f.nodes, k)
                     THEN read_elem(f.nodes[k])
                     ELSE IF k \in {KObs, KVar} /\ Contains(f.nodes, k)
                     THEN IF f.attrs.etype # "" THEN read_elem(f.nodes[k])
                          ELSE read_dataframe(f.nodes[k])
                     ELSE IF k = FRaw THEN [how |-> "raw", raw |-> raw.raw]
                     ELSE IF k = FDtype THEN dt
                     ELSE Missing]
         IN IF raw.err # "none" THEN [err |-> raw.err, opened |-> TRUE, d |-> EmptyMapping]
            ELSE IF dt.how = "ValueError"
            THEN [err |-> "ValueError", opened |-> TRUE, d |-> EmptyMapping]
            ELSE [err |-> "none", opened |-> TRUE, d |-> d]

\* h5ad.py:208-218: "raw.X" and ("raw", "X") (written "raw,X") become
\* "raw/X"; any other token but "raw/X" and "X" raises.
NormalizeAsSparse(as_sparse) ==
    [i \in 1..Len(as_sparse) |->
        IF as_sparse[i] \in {"raw,X", "raw.X"} THEN "raw/X" ELSE as_sparse[i]]

\* h5ad.py:204-218
AsSparseError(as_sparse, as_sparse_fmt) ==
    IF as_sparse_fmt \notin {"csr", "csc"} THEN "NotImplementedError"
    ELSE IF \E i \in 1..Len(as_sparse) : as_sparse[i] \notin {"raw,X", "raw.X", "raw/X", "X"}
    THEN "NotImplementedError"
    ELSE "none"

\* h5ad.py:224-254, the eager read of an opened or missing file
ReadEager(f, as_sparse, fmt, chunk) ==
    IF ~f.exists THEN [err |-> "OSError", opened |-> TRUE, d |-> EmptyMapping]
    ELSE LET xs == Contains(f.nodes, KX) /\ InSeq("X", as_sparse)
             x == IF xs THEN rdasp(f.nodes[KX], fmt, chunk)
                  ELSE [err |-> "none", val |-> Missing]
             raw == read_raw(f.nodes, as_sparse, fmt, chunk, {"X", "var", "varm"})
             dt == ProbeDtype(f.nodes)
             d == [k \in DFields |->
                     IF k = FRaw THEN [how |-> "raw", raw |-> raw.raw]
                     ELSE IF k = FDtype THEN dt
                     ELSE IF k \notin TopKeys(f.nodes) \/ IsLegacyRawKey(k) THEN Missing
                     ELSE IF k = KX /\ xs THEN x.val
                     ELSE IF k \in {KObs, KVar} THEN read_dataframe(f.nodes[k])
                     ELSE read_elem(f.nodes[k])]
         IN IF x.err # "none" THEN [err |-> x.err, opened |-> TRUE, d |-> EmptyMapping]
            ELSE IF raw.err # "none" THEN [err |-> raw.err, opened |-> TRUE, d |-> EmptyMapping]
            ELSE IF dt.how = "ValueError"
            THEN [err |-> "ValueError", opened |-> TRUE, d |-> EmptyMapping]
            ELSE [err |-> "none", opened |-> TRUE, d |-> d]

\* h5ad.py:197-202: any backed but None and False selects the backed read.
IsBackedMode(backed) == backed \notin {"None", "False"}

\* read_h5ad(filename, backed, as_sparse=, as_sparse_fmt=, chunk_size=) of
\* the target file.
read_h5ad(f, backed, as_sparse, as_sparse_fmt, chunk_size) ==
    IF IsBackedMode(backed)
    THEN read_h5ad_backed(f, IF backed = "True" THEN "r+" ELSE backed)
    ELSE IF AsSparseError(as_sparse, as_sparse_fmt) # "none"
    THEN [err |-> AsSparseError(as_sparse, as_sparse_fmt), opened |-> FALSE, d |-> EmptyMapping]
    ELSE ReadEager(f, NormalizeAsSparse(as_sparse), as_sparse_fmt, chunk_size)

(***************************************************************************)
(* Spec: whole calls of write_h5ad and read_h5ad on the target file.  A    *)
(* call leaves its arguments in given and its result in out; Return drops  *)
(* both before the next call.                                              *)
(***************************************************************************)
NoGiven == [op |-> "none"]

\* The matrix of the containers.
NewMatrix == DenseOf(<<2, 2>>, "float32", {<<1, 1>>, <<2, 2>>})

OldFields == PutNode(WriteFieldsOld(EmptyNodes), KX, OldNode)

\* Files the target path may hold at the start: none; files written by
\* write_h5ad (root attributes, new-style raw group or none); a file of a
\* later format version; a legacy file (no root attributes, tables stored
\* as datasets, raw.* keys); files other tools left with both conventions
\* or with a stale temporary key.
InitFiles ==
    {NoFile,
     [exists |-> TRUE, attrs |-> [etype |-> "anndata", eversion |-> "0.1.0"],
      nodes |-> write_elem_raw_old(OldFields)],
     [exists |-> TRUE, attrs |-> [etype |-> "anndata", eversion |-> "0.2.0"],
      nodes |-> PutNode(PutNode(OldFields, KX, [kind |-> "dataset", arr |-> OldMatrix]),
                        KOther, ElemNode("old"))],
     [exists |-> TRUE, attrs |-> [etype |-> "anndata", eversion |-> "0.1.0"],
      nodes |-> DelKey(OldFields, KX)],
     [exists |-> TRUE, attrs |-> NoAttrs,
      nodes |-> PutNode(PutNode(PutNode(PutNode(PutNode(PutNode(OldFields,
                    KX, [kind |-> "dataset", arr |-> OldMatrix]),
                    KObs, [kind |-> "legacy", v |-> "old"]),
                    KVar, [kind |-> "legacy", v |-> "old"]),
                    KLegacyRawX, [kind |-> "dataset", arr |-> OldMatrix]),
                    KLegacyRawVar, [kind |-> "legacy", v |-> "old"]),
                    KLegacyRawVarm, ElemNode("old"))],
     [exists |-> TRUE, attrs |-> [etype |-> "anndata", eversion |-> "0.1.0"],
      nodes |-> PutNode(PutNode(PutNode(OldFields,
                    KObs, [kind |-> "legacy", v |-> "old"]),
                    KRawX, OldNode),
                    KLegacyRawVar, [kind |-> "legacy", v |-> "old"])],
     [exists |-> TRUE, attrs |-> [etype |-> "anndata", eversion |-> "0.1.0"],
      nodes |-> PutNode(write_elem_raw_old(OldFields), KTmpX, OldNode)]}

\* The value adata.X / adata.raw.X of a container backed on the target
\* file: a handle on what the file holds at key.
HandleOn(f, key) ==
    IF f.nodes[key].kind = "sparse" THEN BackedValue("target", key, "sparse", f.nodes[key].m)
    ELSE BackedValue("target", key, "dense", f.nodes[key].arr)

HoldsMatrix(f, key) == f.exists /\ f.nodes[key].kind \in {"sparse", "dataset"}

MemMatrices ==
    {MemValue("dense", NewMatrix), MemValue("sparse", csr_matrix(NewMatrix)),
     MemValue("sparse", csc_matrix(NewMatrix))}

OtherFileMatrices ==
    {BackedValue("other", KX, "dense", NewMatrix),
     BackedValue("other", KX, "sparse", csc_matrix(NewMatrix))}

\* The containers write_h5ad may be handed when the target file is f.
Containers(f) ==
    \* in memory
    {[isbacked |-> FALSE, filename |-> "none", is_view |-> v, has_X |-> TRUE, X |-> x, raw |-> r] :
        v \in {FALSE}, x \in MemMatrices,
        r \in {NoRaw, RawOf(MemValue("sparse", csr_matrix(NewMatrix))),
               RawOf(MemValue("dense", NewMatrix))}}
    \cup
    {[isbacked |-> FALSE, filename |-> "none", is_view |-> TRUE, has_X |-> TRUE,
      X |-> MemValue("sparse", csr_matrix(NewMatrix)), raw |-> NoRaw]}
    \cup
    \* backed on another file; the X of a view is the subset, in memory
    {[isbacked |-> TRUE, filename |-> "other", is_view |-> FALSE, has_X |-> h,
      X |-> IF h THEN x ELSE NoValue, raw |-> r] :
        h \in BOOLEAN, x \in OtherFileMatrices,
        r \in {NoRaw, RawOf(BackedValue("other", KRawX, "sparse", csr_matrix(NewMatrix)))}}
    \cup
    {[isbacked |-> TRUE, filename |-> "other", is_view |-> TRUE, has_X |-> TRUE,
      X |-> MemValue("sparse", csr_matrix(NewMatrix)), raw |-> NoRaw]}
    \cup
    \* backed on the target file
    {[isbacked |-> TRUE, filename |-> "target", is_view |-> FALSE, has_X |-> h,
      X |-> IF h THEN HandleOn(f, KX) ELSE NoValue, raw |-> r] :
        h \in {b \in BOOLEAN : b => HoldsMatrix(f, KX)},
        r \in {NoRaw} \cup {RawOf(HandleOn(f, KRawX)) : z \in {y \in {1} : HoldsMatrix(f, KRawX)}}}
    \cup
    {c \in {[isbacked |-> TRUE, filename |-> "target", is_view |-> TRUE, has_X |-> TRUE,
             X |-> x, raw |-> NoRaw] :
               x \in {MemValue("dense", NewMatrix), MemValue("sparse", csc_matrix(NewMatrix))}} :
        f.exists}

BackedContainers(f) == {c \in Containers(f) : c.filename # "target" \/ f.exists}

AsDenseArgs ==
    {<<>>, <<"X">>, <<"raw/X">>, <<"X", "raw/X">>, <<"raw.X">>, <<"bad">>, <<"X", "bad">>,
     <<"raw.X", "raw.X">>}

AsSparseArgs == {<<>>, <<"X">>, <<"raw/X">>, <<"X", "raw.X">>, <<"raw,X">>, <<"bad">>, <<"X", "bad">>}

Init ==
    /\ file \in InitFiles
    /\ call = NoFrame
    /\ given = NoGiven
    /\ out = NoOut

WriteH5ad ==
    /\ out = NoOut
    /\ \E adata \in BackedContainers(file), force_dense \in {"None", "True"},
          as_dense \in AsDenseArgs :
          \E r \in {write_h5ad(file, adata, force_dense, as_dense)} :
             /\ file' = r.file
             /\ given' = [op |-> "write_h5ad", adata |-> adata, force_dense |-> force_dense,
                          as_dense |-> as_dense, before |-> file]
             /\ out' = [op |-> "write_h5ad", err |-> r.err, opened |-> r.opened,
                        writes |-> r.writes]
    /\ UNCHANGED call

ReadH5ad ==
    /\ out = NoOut
    /\ \E backed \in {"None", "False", "True", "r", "r+"}, as_sparse \in AsSparseArgs,
          as_sparse_fmt \in {"csr", "csc", "coo"}, chunk_size \in {1, DefaultChunkSize} :
          \E r \in {read_h5ad(file, backed, as_sparse, as_sparse_fmt, chunk_size)} :
             /\ given' = [op |-> "read_h5ad", backed |-> backed, as_sparse |-> as_sparse,
                          as_sparse_fmt |-> as_sparse_fmt, chunk_size |-> chunk_size,
                          before |-> file]
             /\ out' = [op |-> "read_h5ad", err |-> r.err, opened |-> r.opened, d |-> r.d]
    /\ UNCHANGED <<file, call>>

\* The caller takes the result.
Return ==
    /\ out # NoOut
    /\ given' = NoGiven
    /\ out' = NoOut
    /\ UNCHANGED <<file, call>>

Next ==
    \/ WriteH5ad
    \/ ReadH5ad
    \/ Return

Spec == Init /\ [][Next]_vars

(***************************************************************************)
(* Properties of write_sparse_as_dense and read_dense_as_sparse, checked   *)
(* under SpecConv.                                                         *)
(***************************************************************************)
\* The aliased case: the destination key exists and the source lives in the
\* file being written.
Aliased ==
    /\ given.op = "write_sparse_as_dense"
    /\ Contains(given.before, given.key)
    /\ given.value.kind = "backed"
    /\ given.value.file = "target"

OrigNode == given.before[given.key]

\* The source as a dense dataset, entry by entry.
NewNode ==
    [kind |-> "dataset",
     arr |-> [shape |-> given.value.m.shape, dtype |-> given.value.m.dtype,
              a |-> [i \in 1..given.value.m.shape[1] |-> [j \in 1..given.value.m.shape[2] |->
                       SparseEntry(given.value.m, i, j)]]]]

\* A second window is still to be written into a dataset that holds the first.
MidWrite == call.todo # <<>> /\ call.todo[1][1] > 0

\* C1 as claimed: in the aliased case, at every state of the call up to
\* and including the end of the delete-and-rename step, the real key
\* addresses the complete original data or the complete new dense data.
C1_RealKeyAlwaysComplete ==
    (Aliased /\ call.pc # "failed") =>
        file.nodes[given.key] \in {OrigNode, NewNode}

\* C1 amended: in the aliased case the real key addresses the complete
\* original data until the delete of the final step, nothing between that
\* delete and the rename, and the complete new dense data from the rename
\* on; it never addresses a partially written dataset.
C1_RealKeyCompleteOrUnlinked ==
    (Aliased /\ call.pc # "failed") =>
        /\ call.pc \in {"start", "create", "chunks", "del_real"} => file.nodes[given.key] = OrigNode
        /\ call.pc = "link" => file.nodes[given.key] = NoNode
        /\ call.pc \in {"del_tmp", "done"} => file.nodes[given.key] = NewNode

C1_Witness ==
    /\ Aliased
    /\ call.pc = "chunks"
    /\ MidWrite
    /\ file.nodes[call.key].kind = "dataset"
    /\ file.nodes[given.key] = OrigNode

C4_RoundTrip ==
    (out.op = "read_dense_as_sparse" /\ out.sparse_format \in {"csr", "csc"}) =>
        /\ out.res.err = "none"
        /\ out.res.value.format = out.sparse_format
        /\ out.res.value.shape = given.value.m.shape
        /\ \A p \in Cells(given.value.m.shape) :
              SparseEntry(out.res.value, p[1], p[2]) = SparseEntry(given.value.m, p[1], p[2])
        /\ Len(out.res.value.data) =
              Cardinality({p \in Cells(given.value.m.shape) :
                              SparseEntry(given.value.m, p[1], p[2]) # 0})
        /\ \A k \in 1..Len(out.res.value.data) : out.res.value.data[k] # 0

C4_Witness ==
    /\ out.op = "read_dense_as_sparse"
    /\ out.sparse_format = "csc"
    /\ out.axis_chunk = 1
    /\ given.value.m.format = "csr"
    /\ given.value.m.shape = <<2, 2>>
    /\ out.res.value.data = <<1, 3, 4>>

\* C9: when the aliased call fails while creating the temporary dataset or
\* while writing a chunk into it, the real key addresses exactly the
\* original data.
C9_FailureKeepsOriginal ==
    (Aliased /\ call.pc = "failed" /\ call.failed_at \in {"create", "chunks"}) =>
        file.nodes[given.key] = OrigNode

C9_Witness ==
    /\ Aliased
    /\ call.pc = "failed"
    /\ call.failed_at = "chunks"
    /\ MidWrite
    /\ file.nodes[given.key] = OrigNode

\* C10 as claimed: the windows run along the compressed axis of the source,
\* axis 0 for a row-compressed and axis 1 for a column-compressed source,
\* in memory or store-backed.
C10_ChunksAlongCompressedAxis ==
    call.pc \in {"chunks", "del_real", "link", "del_tmp", "done"} =>
        call.axis = (IF given.value.m.format = "csc" THEN 1 ELSE 0)

(***************************************************************************)
(* Properties of write_h5ad and read_h5ad, checked under Spec.             *)
(***************************************************************************)
Wrote == given.op = "write_h5ad" /\ out.op = "write_h5ad"

DidRead == given.op = "read_h5ad" /\ out.op = "read_h5ad"

\* An as_dense that names a token outside {X, raw/X} (raw.X standing for
\* raw/X), or raw/X for a container without raw snapshot.
InvalidAsDense ==
    \/ \E i \in 1..Len(given.as_dense) : given.as_dense[i] \notin {"X", "raw/X", "raw.X"}
    \/ /\ \E i \in 1..Len(given.as_dense) : given.as_dense[i] \in {"raw/X", "raw.X"}
       /\ ~given.adata.raw.present

\* An as_sparse that names a token outside {X, raw/X} (raw.X and
\* ("raw", "X") standing for raw/X), or a layout that is neither CSR nor CSC.
InvalidAsSparse ==
    \/ \E i \in 1..Len(given.as_sparse) :
          given.as_sparse[i] \notin {"X", "raw/X", "raw.X", "raw,X"}
    \/ given.as_sparse_fmt \notin {"csr", "csc"}

\* C3 as claimed: an invalid override configuration is rejected with an
\* error before any store I/O, by write_h5ad and by read_h5ad in eager and
\* in backed mode alike.
C3_InvalidOverrideRejectedBeforeIO ==
    /\ (Wrote /\ InvalidAsDense) =>
          (out.err # "none" /\ ~out.opened /\ file = given.before)
    /\ (DidRead /\ InvalidAsSparse) =>
          (out.err # "none" /\ ~out.opened /\ file = given.before)

\* C3 amended: write_h5ad called without force_dense=True (which replaces
\* as_dense) rejects an invalid as_dense before the target file is opened,
\* truncated or modified; read_h5ad in eager mode rejects an invalid
\* as_sparse or as_sparse_fmt before the file is opened; in backed mode
\* read_h5ad checks neither and raises no configuration error.
C3_InvalidOverrideRejectedEagerly ==
    /\ (Wrote /\ given.force_dense # "True" /\ InvalidAsDense) =>
          /\ out.err \in {"NotImplementedError", "ValueError"}
          /\ ~out.opened
          /\ file = given.before
    /\ (DidRead /\ ~IsBackedMode(given.backed) /\ InvalidAsSparse) =>
          /\ out.err = "NotImplementedError"
          /\ ~out.opened
          /\ file = given.before
    /\ (DidRead /\ IsBackedMode(given.backed)) =>
          (out.opened /\ out.err # "NotImplementedError")

C3_Witness ==
    /\ Wrote
    /\ given.force_dense = "None"
    /\ given.as_dense = <<"raw.X">>
    /\ ~given.adata.raw.present
    /\ ~given.adata.isbacked
    /\ given.before.exists
    /\ out.err = "ValueError"
    /\ file = given.before

\* C5 as claimed: re-saving to a file whose root carries encoding-type /
\* encoding-version leaves those values untouched, for every container.
C5_RootEncodingUntouched ==
    (Wrote /\ out.opened /\ given.before.exists) =>
        /\ given.before.attrs.etype # "" => file.attrs.etype = given.before.attrs.etype
        /\ given.before.attrs.eversion # "" =>
              file.attrs.eversion = given.before.attrs.eversion

\* C5 amended: for a backed container (the file is opened in append mode)
\* the root's encoding-type / encoding-version keep their values and
\* anndata / 0.1.0 are set only where the attribute was absent; for an
\* in-memory container the file is truncated and both are set to
\* anndata / 0.1.0.
C5_RootEncodingKeptWhenBacked ==
    (Wrote /\ out.opened) =>
        IF given.adata.isbacked /\ given.before.exists
        THEN /\ file.attrs.etype =
                  (IF given.before.attrs.etype = "" THEN "anndata" ELSE given.before.attrs.etype)
             /\ file.attrs.eversion =
                  (IF given.before.attrs.eversion = "" THEN "0.1.0"
                   ELSE given.before.attrs.eversion)
        ELSE file.attrs = [etype |-> "anndata", eversion |-> "0.1.0"]

C5_Witness ==
    /\ Wrote
    /\ out.opened
    /\ given.adata.isbacked
    /\ given.before.exists
    /\ given.before.attrs.eversion = "0.2.0"
    /\ file.attrs.eversion = "0.2.0"
    /\ file.nodes[KUns] = ElemNode("mem")

RawKeys == {KRaw, KRawX, KRawVar, KRawVarm}

\* C6 as claimed: after write_h5ad of a container without raw snapshot the
\* target store has no raw subtree, whatever it held before and whether the
\* container is backed or not, and a following read_h5ad returns raw absent
\* without error.
C6_NoRawSubtreeAfterWrite ==
    (Wrote /\ out.err = "none" /\ out.opened /\ ~given.adata.raw.present) =>
        /\ \A k \in RawKeys : ~Contains(file.nodes, k)
        /\ ReadEager(file, <<>>, "csr", DefaultChunkSize).err = "none"
        /\ ReadEager(file, <<>>, "csr", DefaultChunkSize).d[FRaw].raw = NoRawMapping

\* The eager read of the file as it is, with no sparse reinterpretation.
EagerOfFile == ReadEager(file, <<>>, "csr", DefaultChunkSize)

\* C7 as claimed: the mapping of the backed read is the mapping of the
\* eager read on every field except X, which it never holds.
C7_BackedEqualsEagerExceptX ==
    (DidRead /\ IsBackedMode(given.backed) /\ out.err = "none") =>
        /\ EagerOfFile.err = "none"
        /\ out.d[KX] = Missing
        /\ \A k \in DFields \ {KX} : out.d[k] = EagerOfFile.d[k]

\* The store holds a new-style raw group and legacy raw.* keys at once.
BothRawConventions ==
    /\ \E k \in RawKeys : Contains(file.nodes, k)
    /\ \E k \in TopKeys(file.nodes) : IsLegacyRawKey(k)

\* C7 amended: for a store that does not hold both raw conventions at once,
\* the backed mapping equals the eager one on obsm, varm, obsp, varp, uns
\* and layers, on obs and var unless the table is a legacy dataset in a
\* store whose root has encoding-type, on the probed dtype and on raw's var
\* and varm; it holds neither X nor raw's X, and holds the file name and
\* mode, which the eager mapping does not.
C7_BackedEqualsEagerOnAnnotations ==
    (DidRead /\ IsBackedMode(given.backed) /\ out.err = "none" /\ ~BothRawConventions) =>
        /\ EagerOfFile.err = "none"
        /\ \A k \in BackedAttributes : out.d[k] = EagerOfFile.d[k]
        /\ \A k \in {KObs, KVar} :
              (file.nodes[k].kind # "legacy" \/ file.attrs.etype = "") =>
                  out.d[k] = EagerOfFile.d[k]
        /\ out.d[FDtype] = EagerOfFile.d[FDtype]
        /\ out.d[FRaw].raw.var = EagerOfFile.d[FRaw].raw.var
        /\ out.d[FRaw].raw.varm = EagerOfFile.d[FRaw].raw.varm
        /\ out.d[FRaw].raw.X = Missing
        /\ out.d[KX] = Missing
        /\ out.d[KOther] = Missing
        /\ out.d[FFilename] # Missing /\ EagerOfFile.d[FFilename] = Missing
        /\ out.d[FFilemode] # Missing /\ EagerOfFile.d[FFilemode] = Missing

C7_Witness ==
    /\ DidRead
    /\ given.backed = "r"
    /\ out.err = "none"
    /\ ~BothRawConventions
    /\ Contains(file.nodes, KRawX)
    /\ EagerOfFile.d[FRaw].raw.X # Missing
    /\ out.d[FRaw].raw.var # Missing
    /\ out.d[KUns] = EagerOfFile.d[KUns]
    /\ out.d[KUns] # Missing

\* A dense override is in effect on a sparse X.
SparseXUnderDenseOverride ==
    /\ given.force_dense = "True" \/ \E i \in 1..Len(given.as_dense) : given.as_dense[i] = "X"
    /\ given.adata.X.repr = "sparse"

\* The cases in which C8 says X is left alone.
XSkipped ==
    \/ given.adata.isbacked /\ ~given.adata.has_X
    \/ /\ given.adata.isbacked
       /\ given.adata.filename = "target"
       /\ ~given.adata.is_view
       /\ ~SparseXUnderDenseOverride

\* C8: write_h5ad issues no write to X and leaves the store's X as it was
\* when the container is backed and its matrix is not loaded, or is backed
\* on the file being written, is not a view and has no sparse X under a
\* dense override; in every other case X is written.  The tables and
\* annotation maps are written in both cases.
C8_XSkippedOnlyWhenBackedInPlace ==
    (Wrote /\ out.opened) =>
        /\ XSkipped => (KX \notin out.writes /\ file.nodes[KX] = given.before.nodes[KX])
        /\ ~XSkipped => KX \in out.writes
        /\ out.err = "none" =>
              \A i \in 1..Len(RestFields) :
                  /\ RestFields[i] \in out.writes
                  /\ file.nodes[RestFields[i]] = ElemNode("mem")

C8_Witness ==
    /\ Wrote
    /\ out.opened
    /\ given.adata.isbacked
    /\ given.adata.filename = "target"
    /\ given.adata.has_X
    /\ given.as_dense = <<"X">>
    /\ given.adata.X.repr = "dense"
    /\ KX \notin out.writes
    /\ file.nodes[KX] = given.before.nodes[KX]
    /\ KObs \in out.writes

====
